---- MODULE Spec2Model ----
(***************************************************************************)
(* Model of setup_telegram.py: the one-shot session setup script.          *)
(*                                                                         *)
(* Text (the .env file, its lines, keys, values, the session token) is a   *)
(* sequence of chunks.  The characters the code inspects ("=", "#", " ",   *)
(* "\n", "+", "-", the digits) are always chunks of their own; the other   *)
(* chunks are runs of characters the code never looks into (a key name     *)
(* such as "TELEGRAM_API_ID", a letter run such as "abc").                 *)
(***************************************************************************)
EXTENDS Integers, Sequences, FiniteSets, TLC

VARIABLES
    pc,             \* position of the run in main / setup_session
    fileExists,     \* whether .env exists on disk
    file,           \* content of .env
    file0,          \* content of .env when the run started (history)
    env_vars,       \* the dict returned by load_env
    api_id,         \* int(env_vars.get('TELEGRAM_API_ID', ''))
    api_hash,       \* env_vars.get('TELEGRAM_API_HASH', '')
    clientCreated,  \* TelegramClient(...) has been constructed
    startOk,        \* client.start() returned without raising
    authorized,     \* client.is_user_authorized(): "unknown", "yes", "no"
    session_string, \* client.session.save()
    saved,          \* the with-block of lines 78-79 completed
    exc,            \* exception propagating inside the try block
    escaped,        \* exception that left the program unhandled
    failures,       \* the steps that failed in this run
    out,            \* messages printed to standard output
    events,         \* log of the steps attempted, in order
    exitStatus      \* process exit status once pc = "done" (-1 before)

vars == <<pc, fileExists, file, file0, env_vars, api_id, api_hash,
          clientCreated, startOk, authorized, session_string, saved, exc,
          escaped, failures, out, events, exitStatus>>

----------------------------------------------------------------------------
(* Text helpers                                                            *)

Whitespace == {" ", "\n"}

Range(s) == {s[i] : i \in 1..Len(s)}

\* str.index-like: position of the first chunk equal to c, 0 when absent.
IndexOf(s, c) ==
    IF c \in Range(s)
    THEN CHOOSE i \in 1..Len(s) : s[i] = c /\ \A j \in 1..(i - 1) : s[j] # c
    ELSE 0

RECURSIVE LStrip(_)
LStrip(s) ==
    IF s # <<>> /\ Head(s) \in Whitespace THEN LStrip(Tail(s)) ELSE s

RECURSIVE RStrip(_)
RStrip(s) ==
    IF s # <<>> /\ s[Len(s)] \in Whitespace
    THEN RStrip(SubSeq(s, 1, Len(s) - 1))
    ELSE s

\* str.strip()
Strip(s) == RStrip(LStrip(s))

\* "for line in f": the lines of the text, each with its terminating "\n"
\* (the last line has none when the text does not end with "\n").
RECURSIVE FileLines(_)
FileLines(s) ==
    IF s = <<>> THEN <<>>
    ELSE LET i == IndexOf(s, "\n")
         IN  IF i = 0 THEN <<s>>
             ELSE <<SubSeq(s, 1, i)>> \o FileLines(SubSeq(s, i + 1, Len(s)))

\* Python dict operations on functions whose domain is a set of keys.
EmptyDict == [k \in {} |-> <<>>]

DictSet(d, k, v) == [x \in (DOMAIN d) \cup {k} |-> IF x = k THEN v ELSE d[x]]

DictGet(d, k, default) == IF k \in DOMAIN d THEN d[k] ELSE default

\* line.split('=', 1): <<key, value>> around the first "=".
SplitLast(line) ==
    LET i == CHOOSE j \in 1..Len(line) :
                 line[j] = "=" /\ \A m \in (j + 1)..Len(line) : line[m] # "="
    IN  <<SubSeq(line, 1, i - 1), SubSeq(line, i + 1, Len(line))>>

SplitFirst(line) ==
    LET i == IndexOf(line, "=")
    IN  <<SubSeq(line, 1, i - 1), SubSeq(line, i + 1, Len(line))>>

\* Body of the for loop of load_env (lines 19-22) for one line.
LoadLine(d, rawLine) ==
    LET line == Strip(rawLine)
    IN  IF line # <<>> /\ Head(line) # "#" /\ "=" \in Range(line)
        THEN DictSet(d, SplitFirst(line)[1], SplitFirst(line)[2])
        ELSE d

RECURSIVE LoadLines(_, _, _)
LoadLines(lines, i, d) ==
    IF i > Len(lines) THEN d
    ELSE LoadLines(lines, i + 1, LoadLine(d, lines[i]))

\* load_env on a file that exists and can be read.
load_env(text) == LoadLines(FileLines(text), 1, EmptyDict)

Digits == <<"0", "1", "2", "3", "4", "5", "6", "7", "8", "9">>

DigitValue(c) == IndexOf(Digits, c) - 1

RECURSIVE DigitsValue(_, _)
DigitsValue(s, acc) ==
    IF s = <<>> THEN acc
    ELSE DigitsValue(Tail(s), 10 * acc + DigitValue(Head(s)))

\* int(str): surrounding whitespace is ignored, then an optional sign and
\* one or more decimal digits; anything else raises ValueError.  (Python
\* also accepts "_" between digits; no text of the model contains one.)
IntParse(text) ==
    LET s      == Strip(text)
        signed == s # <<>> /\ Head(s) \in {"+", "-"}
        digits == IF signed THEN Tail(s) ELSE s
    IN  IF digits # <<>> /\ \A i \in 1..Len(digits) : digits[i] \in Range(Digits)
        THEN [ok |-> TRUE,
              val |-> IF signed /\ Head(s) = "-"
                      THEN 0 - DigitsValue(digits, 0)
                      ELSE DigitsValue(digits, 0)]
        ELSE [ok |-> FALSE, val |-> 0]

----------------------------------------------------------------------------
(* The initial .env file                                                   *)

\* Bound of the model: the number of lines of the initial .env file.
MaxLines == 3

LinePool ==
    { <<"TELEGRAM_API_ID", "=", "1", "7">>,
      <<"TELEGRAM_API_ID", "=", "0">>,
      <<"TELEGRAM_API_ID", "=", "abc">>,
      <<" ", "TELEGRAM_API_HASH", "=", "abc", "=", "d", " ">>,
      <<"TELEGRAM_API_HASH", "=">>,
      <<"BACKUP_CHANNEL_ID", "=", "-", "1", "0">>,
      <<"BACKUP_CHANNEL_ID", "=", "abc">>,
      <<"USER_SESSION_STRING", "=", "1old", "=">>,
      <<"#", "TELEGRAM_API_ID", "=", "1">>,
      <<"TELEGRAM_API_HASH">>,
      <<>> }

\* What client.session.save() can return: base64 text, "=" padding included.
Tokens == { <<"1new">>, <<"1new", "=", "=">> }

RECURSIVE JoinLines(_)
JoinLines(ls) ==
    IF ls = <<>> THEN <<>>
    ELSE IF Len(ls) = 1 THEN Head(ls)
    ELSE Head(ls) \o <<"\n">> \o JoinLines(Tail(ls))

\* Every text of at most MaxLines pool lines, with and without a final "\n".
InitialFiles ==
    LET seqs == UNION {[1..n -> LinePool] : n \in 0..MaxLines}
    IN  {JoinLines(ls) : ls \in seqs} \cup
        {JoinLines(ls) \o <<"\n">> : ls \in seqs}

----------------------------------------------------------------------------
(* The run                                                                 *)

Init ==
    /\ pc = "main"
    /\ fileExists \in BOOLEAN
    /\ file \in (IF fileExists THEN InitialFiles ELSE {<<>>})
    /\ file0 = file
    /\ env_vars = EmptyDict
    /\ api_id = 0
    /\ api_hash = <<>>
    /\ clientCreated = FALSE
    /\ startOk = FALSE
    /\ authorized = "unknown"
    /\ session_string = <<>>
    /\ saved = FALSE
    /\ exc = "none"
    /\ escaped = "none"
    /\ failures = {}
    /\ out = {}
    /\ events = <<>>
    /\ exitStatus = -1

\* What an awaited client call can do: return, raise an error, or be cut
\* short by the user's interrupt, which reaches the coroutine either as
\* KeyboardInterrupt (raised in its own code) or as the cancellation of
\* its task (asyncio.run cancels the task and raises KeyboardInterrupt).
AwaitOutcomes == {"ok", "Exception", "KeyboardInterrupt", "CancelledError"}

\* Line 44: "if not api_id or not api_hash" is the rejection.
CredentialsValidHashOnly(id, hash) == hash # <<>>

CredentialsValid(id, hash) == id # 0 /\ hash # <<>>

\* Lines 58 and 95: the branch on is_user_authorized().
AuthorizedNextUnchecked(isAuthorized) == "get_me"

AuthorizedNext(isAuthorized) == IF isAuthorized THEN "get_me" ELSE "finally"

\* Line 79: the text written to the file.
SessionLineNoLeadingBreak(token) == <<"USER_SESSION_STRING", "=">> \o token \o <<"\n">>

SessionLine(token) ==
    <<"\n", "USER_SESSION_STRING", "=">> \o token \o <<"\n">>

\* Line 78: open('.env', 'a') writes at the end of the file.
OverwriteFile(old, text) == text

AppendToFile(old, text) == old \o text

\* Line 86: "if backup_channel".
BackupNextAlways(backup_channel) == "get_entity"

BackupNext(backup_channel) ==
    IF backup_channel # <<>> THEN "get_entity" ELSE "finally"

\* Lines 98-107: after an except clause of the outer try the finally runs.
HandlerNextRetry(e) == IF e = "Exception" THEN "start" ELSE "finally"

HandlerNextNoFinally(e) == "done"

HandlerNext(e) == "finally"

\* main(), lines 110-127.  The version test and the telethon import cannot
\* fail here: the module already imported telethon at line 10.
Main ==
    /\ pc = "main"
    /\ pc' = "load_env"
    /\ out' = out \cup {"Telethon version"}
    /\ UNCHANGED <<fileExists, file, file0, env_vars, api_id, api_hash,
                   clientCreated, startOk, authorized, session_string, saved,
                   exc, escaped, failures, events, exitStatus>>

\* load_env(), lines 13-26, called at line 35 outside any try.
LoadEnv ==
    /\ pc = "load_env"
    /\ events' = Append(events, "load_env")
    /\ \/ /\ ~fileExists                       \* FileNotFoundError, line 23
          /\ out' = out \cup {".env file not found!"}
          /\ failures' = failures \cup {"read_config"}
          /\ pc' = "done"
          /\ exitStatus' = 1
          /\ UNCHANGED <<env_vars, escaped>>
       \/ /\ fileExists                        \* any other error of open/read
          /\ failures' = failures \cup {"read_config"}
          /\ escaped' = "Exception"
          /\ pc' = "done"
          /\ exitStatus' = 1
          /\ UNCHANGED <<env_vars, out>>
       \/ /\ fileExists
          /\ env_vars' = load_env(file)
          /\ pc' = "parse"
          /\ UNCHANGED <<failures, escaped, out, exitStatus>>
    /\ UNCHANGED <<fileExists, file, file0, api_id, api_hash, clientCreated,
                   startOk, authorized, session_string, saved, exc>>

\* Lines 37-52: read the two credentials, reject bad ones, create the client.
ParseCredentials ==
    /\ pc = "parse"
    /\ LET id   == IntParse(DictGet(env_vars, <<"TELEGRAM_API_ID">>, <<>>))
           hash == DictGet(env_vars, <<"TELEGRAM_API_HASH">>, <<>>)
       IN  \/ /\ ~id.ok                        \* ValueError, line 40
              /\ out' = out \cup {"Missing TELEGRAM_API_ID or TELEGRAM_API_HASH"}
              /\ failures' = failures \cup {"parse"}
              /\ pc' = "done"
              /\ exitStatus' = 1
              /\ UNCHANGED <<api_id, api_hash, clientCreated>>
           \/ /\ id.ok
              /\ ~CredentialsValid(id.val, hash)
              /\ api_id' = id.val
              /\ api_hash' = hash
              /\ out' = out \cup {"Invalid API_ID or API_HASH"}
              /\ failures' = failures \cup {"parse"}
              /\ pc' = "done"
              /\ exitStatus' = 1
              /\ UNCHANGED clientCreated
           \/ /\ id.ok
              /\ CredentialsValid(id.val, hash)
              /\ api_id' = id.val
              /\ api_hash' = hash
              /\ out' = out \cup {"Using API_ID"}
              /\ clientCreated' = TRUE
              /\ pc' = "start"
              /\ UNCHANGED <<failures, exitStatus>>
    /\ UNCHANGED <<fileExists, file, file0, env_vars, startOk, authorized,
                   session_string, saved, exc, escaped, events>>

\* An awaited call of the outer try body did not return: the error is
\* recorded as a failure of `step`, an interrupt is not a failure.
Raised(step, r) ==
    /\ exc' = r
    /\ pc' = IF r = "CancelledError" THEN "finally" ELSE "except"
    /\ failures' = IF r = "Exception" THEN failures \cup {step} ELSE failures

\* Lines 55-56: await client.start().
Start ==
    /\ pc = "start"
    /\ events' = Append(events, "start")
    /\ out' = out \cup {"Starting authentication..."}
    /\ \E r \in AwaitOutcomes :
          \/ /\ r = "ok"
             /\ startOk' = TRUE
             /\ pc' = "is_user_authorized"
             /\ UNCHANGED <<exc, failures>>
          \/ /\ r # "ok"
             /\ Raised("start", r)
             /\ UNCHANGED startOk
    /\ UNCHANGED <<fileExists, file, file0, env_vars, api_id, api_hash,
                   clientCreated, authorized, session_string, saved, escaped,
                   exitStatus>>

\* Lines 58-59 and 95-96: await client.is_user_authorized().
IsUserAuthorized ==
    /\ pc = "is_user_authorized"
    /\ \E r \in AwaitOutcomes :
          \/ /\ r = "ok"
             /\ \E a \in BOOLEAN :
                   /\ authorized' = IF a THEN "yes" ELSE "no"
                   /\ pc' = AuthorizedNext(a)
                   /\ out' = out \cup {IF a THEN "Authentication successful!"
                                            ELSE "Authentication failed"}
                   /\ failures' = IF a THEN failures
                                  ELSE failures \cup {"not_authorized"}
             /\ UNCHANGED exc
          \/ /\ r # "ok"
             /\ Raised("is_user_authorized", r)
             /\ UNCHANGED <<authorized, out>>
    /\ UNCHANGED <<fileExists, file, file0, env_vars, api_id, api_hash,
                   clientCreated, startOk, session_string, saved, escaped,
                   events, exitStatus>>

\* Lines 61-72: me = await client.get_me() and the prints that read it
\* (an error raised while reading me is an error of this step; the premium
\* test only chooses which of two lines is printed).
GetMe ==
    /\ pc = "get_me"
    /\ \E r \in AwaitOutcomes :
          \/ /\ r = "ok"
             /\ out' = out \cup {"Authenticated as", "Telegram Premium: YES/NO"}
             /\ pc' = "save"
             /\ UNCHANGED <<exc, failures>>
          \/ /\ r # "ok"
             /\ Raised("get_me", r)
             /\ UNCHANGED out
    /\ UNCHANGED <<fileExists, file, file0, env_vars, api_id, api_hash,
                   clientCreated, startOk, authorized, session_string, saved,
                   escaped, events, exitStatus>>

\* Lines 74-86: save the session string to .env, then choose whether the
\* backup channel is tested.  A failing write may leave any proper prefix
\* of the text in the file (none when open() itself fails).
SaveSession ==
    /\ pc = "save"
    /\ events' = Append(events, "append")
    /\ \E token \in Tokens :
          /\ session_string' = token
          /\ \/ /\ file' = AppendToFile(file, SessionLine(token))
                /\ saved' = TRUE
                /\ out' = out \cup {"Session string saved to .env file"}
                /\ pc' = BackupNext(DictGet(env_vars, <<"BACKUP_CHANNEL_ID">>, <<>>))
                /\ UNCHANGED <<exc, failures>>
             \/ /\ \E n \in 0..(Len(SessionLine(token)) - 1) :
                      file' = AppendToFile(file, SubSeq(SessionLine(token), 1, n))
                /\ Raised("append", "Exception")
                /\ UNCHANGED <<saved, out>>
    /\ UNCHANGED <<fileExists, file0, env_vars, api_id, api_hash,
                   clientCreated, startOk, authorized, escaped, exitStatus>>

\* Lines 87-93: the channel check, inside its own try.
GetEntity ==
    /\ pc = "get_entity"
    /\ events' = Append(events, "get_entity")
    /\ LET id == IntParse(DictGet(env_vars, <<"BACKUP_CHANNEL_ID">>, <<>>))
       IN  \/ /\ ~id.ok                        \* int() raises ValueError
              /\ out' = out \cup {"Testing access to backup channel",
                                  "Warning: Cannot access backup channel"}
              /\ failures' = failures \cup {"get_entity"}
              /\ pc' = "finally"                \* lines 91-93 only warn
              /\ UNCHANGED exc
           \/ /\ id.ok
              /\ \E r \in AwaitOutcomes :
                    \/ /\ r = "ok"
                       /\ out' = out \cup {"Testing access to backup channel",
                                           "Backup channel access confirmed!"}
                       /\ pc' = "finally"
                       /\ UNCHANGED <<exc, failures>>
                    \/ /\ r = "Exception"
                       /\ out' = out \cup {"Testing access to backup channel",
                                           "Warning: Cannot access backup channel"}
                       /\ failures' = failures \cup {"get_entity"}
                       /\ pc' = "finally"
                       /\ UNCHANGED exc
                    \/ /\ r \in {"KeyboardInterrupt", "CancelledError"}
                       /\ out' = out \cup {"Testing access to backup channel"}
                       /\ Raised("get_entity", r)
    /\ UNCHANGED <<fileExists, file, file0, env_vars, api_id, api_hash,
                   clientCreated, startOk, authorized, session_string, saved,
                   escaped, exitStatus>>

\* Lines 98-106: the except clauses of the outer try.
ExceptHandlers ==
    /\ pc = "except"
    /\ out' = out \cup {IF exc = "KeyboardInterrupt"
                        THEN "Setup cancelled by user" ELSE "Setup failed"}
    /\ pc' = HandlerNext(exc)
    /\ exc' = "none"
    /\ UNCHANGED <<fileExists, file, file0, env_vars, api_id, api_hash,
                   clientCreated, startOk, authorized, session_string, saved,
                   escaped, failures, events, exitStatus>>

\* Lines 107-108 and the end of the process: await client.disconnect(),
\* then the run returns, or the pending exception leaves the program.
Finally ==
    /\ pc = "finally"
    /\ events' = Append(events, "disconnect")
    /\ pc' = "done"
    /\ \/ /\ exc = "none"                      \* normal return
          /\ exitStatus' = 0
          /\ UNCHANGED <<escaped, failures>>
       \/ /\ exc = "CancelledError"            \* asyncio.run: KeyboardInterrupt
          /\ escaped' = "KeyboardInterrupt"
          /\ exitStatus' = 130
          /\ UNCHANGED failures
       \/ /\ escaped' = "Exception"            \* disconnect() raises
          /\ failures' = failures \cup {"disconnect"}
          /\ exitStatus' = 1
    /\ UNCHANGED <<fileExists, file, file0, env_vars, api_id, api_hash,
                   clientCreated, startOk, authorized, session_string, saved,
                   exc, out>>

Next ==
    \/ Main
    \/ LoadEnv
    \/ ParseCredentials
    \/ Start
    \/ IsUserAuthorized
    \/ GetMe
    \/ SaveSession
    \/ GetEntity
    \/ ExceptHandlers
    \/ Finally

Spec == Init /\ [][Next]_vars

----------------------------------------------------------------------------
(* Vocabulary of the properties                                            *)

Count(log, step) == Cardinality({i \in 1..Len(log) : log[i] = step})

Happened(step) == step \in Range(events)

\* The lines of a text without their terminating "\n".
LineTexts(text) ==
    LET lines == FileLines(text)
    IN  [i \in 1..Len(lines) |->
            IF lines[i][Len(lines[i])] = "\n"
            THEN SubSeq(lines[i], 1, Len(lines[i]) - 1)
            ELSE lines[i]]

\* load_env returned a dict in this run.
Loaded == Happened("load_env") /\ "read_config" \notin failures

\* The text a successful save adds, written out chunk by chunk.
SavedText == <<"\n", "USER_SESSION_STRING", "=">> \o session_string \o <<"\n">>

\* The credentials as the file held them when the run started.
Config0 ==
    LET d  == load_env(file0)
        id == IntParse(DictGet(d, <<"TELEGRAM_API_ID">>, <<>>))
    IN  [idIsInt |-> id.ok,
         id      |-> id.val,
         hash    |-> DictGet(d, <<"TELEGRAM_API_HASH">>, <<>>)]

\* Reference reading of one line, stated without the model's Strip, IndexOf
\* and SplitFirst: the line from its first to its last non-whitespace chunk.
RefStripped(l) ==
    LET solid == {m \in 1..Len(l) : l[m] \notin Whitespace}
    IN  IF solid = {} THEN <<>>
        ELSE SubSeq(l, CHOOSE m \in solid : \A n \in solid : m <= n,
                       CHOOSE m \in solid : \A n \in solid : m >= n)

RefUsable(t) == t # <<>> /\ t[1] # "#" /\ \E m \in 1..Len(t) : t[m] = "="

\* k is the text of t before its first "=".
RefHasKey(t, k) ==
    /\ \A m \in 1..Len(k) : k[m] # "="
    /\ Len(t) > Len(k)
    /\ SubSeq(t, 1, Len(k)) = k
    /\ t[Len(k) + 1] = "="

RefValue(t, k) == SubSeq(t, Len(k) + 2, Len(t))

RefLines ==
    LET lines == FileLines(file0)
    IN  [i \in 1..Len(lines) |-> RefStripped(lines[i])]

StepOrder == <<"load_env", "start", "append", "get_entity", "disconnect">>

----------------------------------------------------------------------------
(* Properties                                                              *)

\* C1: the file changes only after client.start() returned without error
\* and the account was reported authorized; on every other path the file
\* at the end of the run is the file at its start.
C1_WriteOnlyAfterAuth ==
    /\ file # file0 => (startOk /\ authorized = "yes" /\ Happened("append"))
    /\ saved => (startOk /\ authorized = "yes")
    /\ (pc = "done" /\ ~(startOk /\ authorized = "yes")) => file = file0

C1_Witness ==
    /\ pc = "done"
    /\ saved
    /\ file = file0 \o SavedText

\* C2: every failure of a run is handled by the program: none leaves it
\* as an unhandled error.
C2_AllFailuresHandled ==
    (pc = "done" /\ failures # {}) => escaped = "none"

\* C3 as stated: the file is read once and appended to at most once, and
\* after a run it is unchanged or is the old content followed by exactly
\* one added line USER_SESSION_STRING=<token>.
C3_ExactlyOneLineAdded ==
    pc = "done" =>
        /\ Count(events, "load_env") = 1
        /\ Count(events, "append") <= 1
        /\ \/ file = file0
           \/ \E t \in Tokens :
                 LineTexts(file) =
                     LineTexts(file0) \o <<(<<"USER_SESSION_STRING", "=">> \o t)>>

\* C3 as amended: the file is read once and appended to at most once; it
\* is the old content followed by nothing, or by a line break and then
\* exactly one line USER_SESSION_STRING=<token> (the whole text when the
\* save succeeded, a leading part of it only when the append failed); no
\* old line is removed, reordered or altered and no other key appears.
C3_AppendOnlyAdds ==
    /\ pc = "done" =>
          (Count(events, "load_env") = 1 /\ Count(events, "append") <= 1)
    /\ ~Happened("append") => file = file0
    /\ saved => file = file0 \o SavedText
    /\ ~saved =>
          \E t \in Tokens : \E n \in 0..(Len(t) + 3) :
              file = file0 \o SubSeq(<<"\n", "USER_SESSION_STRING", "=">>
                                        \o t \o <<"\n">>, 1, n)
    /\ file # file0 =>
          LET old == LineTexts(file0)
              new == LineTexts(file)
          IN  /\ Len(new) >= Len(old)
              /\ \A i \in 1..Len(old) : new[i] = old[i]
              /\ DOMAIN load_env(file) \subseteq
                     (DOMAIN load_env(file0)) \cup {<<"USER_SESSION_STRING">>}

C3_Witness ==
    /\ pc = "done"
    /\ saved
    /\ file0 # <<>>
    /\ file0[Len(file0)] = "\n"
    /\ Len(LineTexts(file)) = Len(LineTexts(file0)) + 2

\* C4: nothing is retried: every step is attempted at most once, and once
\* a step has failed no step other than the disconnect is attempted.
C4_NothingRetried ==
    [][ /\ \A i \in 1..Len(StepOrder) : Count(events', StepOrder[i]) <= 1
        /\ failures # {} =>
              \A step \in {"load_env", "start", "append", "get_entity"} :
                  Count(events', step) = Count(events, step)
      ]_vars

C4_Witness ==
    /\ pc = "done"
    /\ "start" \in failures
    /\ events = <<"load_env", "start", "disconnect">>

\* C5: the process ends with a success status exactly when the session
\* string was saved to the configuration file.
C5_ExitStatusReportsOutcome ==
    pc = "done" => (exitStatus = 0 <=> saved)

\* C6: after a run that saved token t, load_env of the file yields
\* USER_SESSION_STRING = t and every other key keeps the value it had on
\* the read before the run.
C6_SavedTokenRoundTrip ==
    saved =>
        LET again == load_env(file)
        IN  /\ DOMAIN again = (DOMAIN env_vars) \cup {<<"USER_SESSION_STRING">>}
            /\ again[<<"USER_SESSION_STRING">>] = session_string
            /\ \A k \in (DOMAIN env_vars) \ {<<"USER_SESSION_STRING">>} :
                   again[k] = env_vars[k]

C6_Witness ==
    /\ saved
    /\ file0[Len(file0)] # "\n"
    /\ <<"USER_SESSION_STRING">> \in DOMAIN env_vars
    /\ env_vars[<<"USER_SESSION_STRING">>] # session_string
    /\ "=" \in Range(session_string)

\* C7: a missing file, an absent, non-integer or zero TELEGRAM_API_ID, or
\* an absent or empty TELEGRAM_API_HASH ends the run with status 1 with no
\* client created, no handshake started and the file untouched; the
\* handshake starts only with a non-zero integer id and a non-empty hash.
C7_BadConfigRejectedFirst ==
    LET c   == Config0
        bad == ~fileExists \/ ~c.idIsInt \/ c.id = 0 \/ c.hash = <<>>
        rejectedFirst ==
            /\ ~clientCreated
            /\ ~Happened("start")
            /\ file = file0
            /\ pc \in {"main", "load_env", "parse", "done"}
            /\ pc = "done" => exitStatus = 1
    IN  /\ rejectedFirst \/ ~bad
        /\ Happened("start") => (c.idIsInt /\ c.id # 0 /\ c.hash # <<>>)

C7_Witness ==
    /\ pc = "done"
    /\ fileExists
    /\ Config0.idIsInt
    /\ Config0.id = 0
    /\ Config0.hash # <<>>
    /\ "Invalid API_ID or API_HASH" \in out

\* C8: the steps happen in the order load, authenticate, append, resolve
\* the channel; the channel is resolved only if BACKUP_CHANNEL_ID was read
\* non-empty and only after the session string was appended; a failed
\* channel check leaves the appended line in the file and only warns.
C8_OrderAndOptionalChannelCheck ==
    /\ \A i, j \in 1..Len(events) :
          i < j => IndexOf(StepOrder, events[i]) < IndexOf(StepOrder, events[j])
    /\ Happened("get_entity") =>
          /\ DictGet(load_env(file0), <<"BACKUP_CHANNEL_ID">>, <<>>) # <<>>
          /\ saved
          /\ Happened("append")
    /\ "get_entity" \in failures =>
          /\ file = file0 \o SavedText
          /\ "Warning: Cannot access backup channel" \in out
          /\ "Setup failed" \notin out
          /\ pc \in {"finally", "done"}

C8_Witness ==
    /\ pc = "done"
    /\ "get_entity" \in failures
    /\ ~IntParse(DictGet(env_vars, <<"BACKUP_CHANNEL_ID">>, <<>>)).ok
    /\ events = StepOrder

\* C9: load_env returns exactly the reference reading of the file: the
\* keys of the usable lines (non-empty once stripped, not starting with
\* "#", holding "="), each with the text after the first "=" of the last
\* usable line that has this key.
C9_LoadEnvIsReferenceParse ==
    Loaded =>
        LET L == RefLines
        IN  /\ \A k \in DOMAIN env_vars :
                  \E i \in 1..Len(L) :
                      /\ RefUsable(L[i])
                      /\ RefHasKey(L[i], k)
                      /\ env_vars[k] = RefValue(L[i], k)
                      /\ \A j \in (i + 1)..Len(L) :
                             ~(RefUsable(L[j]) /\ RefHasKey(L[j], k))
            /\ \A i \in 1..Len(L) :
                  RefUsable(L[i]) => \E k \in DOMAIN env_vars : RefHasKey(L[i], k)

C9_Witness ==
    /\ Loaded
    /\ LET L == RefLines
       IN  /\ \E i, j \in 1..Len(L) :
                 /\ i < j
                 /\ RefUsable(L[i]) /\ RefUsable(L[j])
                 /\ RefHasKey(L[i], <<"TELEGRAM_API_HASH">>)
                 /\ RefHasKey(L[j], <<"TELEGRAM_API_HASH">>)
                 /\ L[i] # L[j]
           /\ \E i \in 1..Len(L) : L[i] # <<>> /\ ~RefUsable(L[i])
    /\ "=" \in Range(env_vars[<<"TELEGRAM_API_HASH">>])

\* C10: once the client exists it is disconnected exactly once before the
\* run ends, on every path, and nothing happens after the disconnect.
C10_DisconnectedExactlyOnce ==
    /\ (pc = "done" /\ clientCreated) => Count(events, "disconnect") = 1
    /\ Count(events, "disconnect") <= 1
    /\ Happened("disconnect") =>
          (events[Len(events)] = "disconnect" /\ pc = "done")

C10_Witness ==
    /\ pc = "done"
    /\ clientCreated
    /\ "Setup cancelled by user" \in out
    /\ Count(events, "disconnect") = 1

====
